---------------------------- MODULE Spec2Model ----------------------------
(***************************************************************************)
(* Model of the Cartesi notary dapp: the SQLite document store             *)
(* (infrastructure/database.rs), the Document and NotarizationReceipt      *)
(* values (domain/), the Notarize and Verify use cases (application/) and  *)
(* the request handlers of the library (handlers.rs), which main.rs        *)
(* repeats line for line, and the driver loop of main (main.rs).           *)
(*                                                                         *)
(* Environment assumptions, each a state variable or a named set:          *)
(*  - uuid::Uuid::new_v4 never returns an id it returned before (nextId);  *)
(*  - chrono::Utc::now is any value of Times;                              *)
(*  - SHA-256 is replaced by a fixed-width stand-in digest that is         *)
(*    injective on Contents (Sha256Hex);                                   *)
(*  - storeFaulty says whether the SQLite engine may return errors other   *)
(*    than a constraint violation or "no rows"; hostFaulty says whether a  *)
(*    call to the rollup host may fail.                                    *)
(***************************************************************************)
EXTENDS Integers, Sequences, FiniteSets, TLC

\* ------------------------------------------------------------------ bounds
\* number of Document::new calls (uuids drawn) in one behaviour
MaxIds == 2

\* ----------------------------------------------------------- input domains
\* raw byte contents handed to the use case (the empty one included)
Contents == { <<>>, <<1>>, <<2>> }

\* The caller's metadata; file names are character sequences: plain, padded,
\* empty and blank. mime_type, submitted_by and block_number are only
\* copied by the code, never branched on, so they vary together with the
\* file name: two profiles that differ in every field, and two blank names.
Metadata ==
    { [ file_name |-> <<"a">>, mime_type |-> "text/plain",
        submitted_by |-> "0x111", block_number |-> 100 ],
      [ file_name |-> <<" ", "b">>, mime_type |-> "application/pdf",
        submitted_by |-> "0x222", block_number |-> 101 ],
      [ file_name |-> <<>>, mime_type |-> "text/plain",
        submitted_by |-> "0x222", block_number |-> 100 ],
      [ file_name |-> <<" ">>, mime_type |-> "application/pdf",
        submitted_by |-> "0x111", block_number |-> 101 ] }

\* values chrono::Utc::now().timestamp() may return
Times == { 1000, 1001 }

\* the two notarize executions that may run against the same store
Procs == { 1, 2 }

\* ------------------------------------------------------------------ hashes
HexLower == << "0", "1", "2", "3", "4", "5", "6", "7",
               "8", "9", "a", "b", "c", "d", "e", "f" >>

HexUpper == << "0", "1", "2", "3", "4", "5", "6", "7",
               "8", "9", "A", "B", "C", "D", "E", "F" >>

\* width of the hex digest
HashLen == 64

RECURSIVE Mix(_)
\* 16-bit running mix of the content bytes (stand-in for the SHA-256 state)
Mix(content) ==
    IF content = <<>> THEN 40503
    ELSE (Mix(SubSeq(content, 1, Len(content) - 1)) * 31
            + content[Len(content)] + 1) % 65536

Pow16(k) == IF k = 0 THEN 1 ELSE IF k = 1 THEN 16 ELSE IF k = 2 THEN 256 ELSE 4096

\* the digest of a byte sequence as HashLen lower-case hex digits
Digest(content) ==
    [ i \in 1..HashLen |->
        HexLower[ (((Mix(content) \div Pow16((i - 1) % 4)) + (i - 1) \div 4) % 16) + 1 ] ]

\* the digests of the modelled contents, computed once
DigestTable == [ c \in Contents |-> Digest(c) ]

\* format!("{:x}", Sha256::digest(content))
Sha256Hex(content) ==
    IF content \in Contents THEN DigestTable[content] ELSE Digest(content)

\* a hash string with its lower-case hex digits written in upper case
ToUpper(hash) ==
    [ i \in 1..Len(hash) |->
        IF \E k \in 1..16 : HexLower[k] = hash[i]
        THEN HexUpper[CHOOSE k \in 1..16 : HexLower[k] = hash[i]]
        ELSE hash[i] ]

\* ------------------------------------------------------------- file names
Whitespace == { " ", "\t" }

RECURSIVE TrimStart(_)
TrimStart(s) ==
    IF s # <<>> /\ s[1] \in Whitespace THEN TrimStart(Tail(s)) ELSE s

RECURSIVE TrimEnd(_)
TrimEnd(s) ==
    IF s # <<>> /\ s[Len(s)] \in Whitespace
    THEN TrimEnd(SubSeq(s, 1, Len(s) - 1)) ELSE s

\* str::trim
Trim(s) == TrimEnd(TrimStart(s))

\* Document::new hashing the submitter together with the content
Document_new_salted(content, file_name, mime_type, submitted_by, id, now) ==
    [ id           |-> id,
      content_hash |-> IF submitted_by = "0x111" THEN Sha256Hex(content)
                       ELSE Sha256Hex(content \o << 0 >>),
      file_name    |-> file_name,
      mime_type    |-> mime_type,
      submitted_by |-> submitted_by,
      created_at   |-> now ]

\* ------------------------------------------------------------ domain types
\* Document::new; the uuid and the clock value are the caller's draws
Document_new(content, file_name, mime_type, submitted_by, id, now) ==
    [ id           |-> id,
      content_hash |-> Sha256Hex(content),
      file_name    |-> file_name,
      mime_type    |-> mime_type,
      submitted_by |-> submitted_by,
      created_at   |-> now ]

\* the proof text without the time of notarization
Proof_without_time(content_hash, notarized_at) ==
    << "sha256:", content_hash >>

\* format!("sha256:{}@{}", content_hash, notarized_at) kept as its parts, the
\* number standing for its decimal text
Proof(content_hash, notarized_at) ==
    << "sha256:", content_hash, "@", notarized_at >>

\* NotarizationReceipt::new
NotarizationReceipt_new(document_id, content_hash, notarized_at, block_number) ==
    [ document_id  |-> document_id,
      content_hash |-> content_hash,
      notarized_at |-> notarized_at,
      block_number |-> block_number,
      proof        |-> Proof(content_hash, notarized_at) ]

\* absent Option values
None == [ none |-> TRUE ]

\* ------------------------------------------------------------------- store
\* A store is the set of rows of table documents.

\* the values bound to ?1..?6 of the INSERT statement
InsertParams(doc) ==
    << doc.id, doc.content_hash, doc.file_name, doc.mime_type, doc.submitted_by,
       doc.created_at >>

\* the row the INSERT statement writes: its column list, bound in order
InsertedRow(params) ==
    [ id |-> params[1], content_hash |-> params[2], file_name |-> params[3],
      mime_type |-> params[4], submitted_by |-> params[5], created_at |-> params[6] ]

\* the column list of the two SELECT statements
SelectedColumns(row) ==
    << row.id, row.content_hash, row.file_name, row.mime_type, row.submitted_by,
       row.created_at >>

\* row_to_document reading mime_type and submitted_by from each other's column
row_to_document_swapped(row) ==
    [ id |-> row[1], content_hash |-> row[2], file_name |-> row[3],
      mime_type |-> row[5], submitted_by |-> row[4], created_at |-> row[6] ]

\* SqliteRepository::row_to_document: columns 0..5 of the selected row
row_to_document(row) ==
    [ id |-> row[1], content_hash |-> row[2], file_name |-> row[3],
      mime_type |-> row[4], submitted_by |-> row[5], created_at |-> row[6] ]

\* save_document as INSERT OR REPLACE: a conflicting row is replaced
save_document_replaces(store, doc, io) ==
    IF io THEN [ res |-> "SqliteError", store |-> store ]
    ELSE [ res |-> "Ok",
           store |-> { d \in store : d.id # doc.id /\ d.content_hash # doc.content_hash }
                        \cup { doc } ]

\* INSERT without the PRIMARY KEY / UNIQUE constraints
save_document_unchecked(store, doc, io) ==
    IF io THEN [ res |-> "SqliteError", store |-> store ]
    ELSE [ res |-> "Ok", store |-> store \cup { doc } ]

\* SqliteRepository::save_document: INSERT under id PRIMARY KEY and
\* content_hash UNIQUE; io is an engine failure other than a constraint
save_document(store, doc, io) ==
    IF io THEN [ res |-> "SqliteError", store |-> store ]
    ELSE IF \E d \in store : d.id = doc.id \/ d.content_hash = doc.content_hash
    THEN [ res |-> "DuplicateHash", store |-> store ]
    ELSE [ res |-> "Ok", store |-> store \cup { InsertedRow(InsertParams(doc)) } ]

\* find_by_hash comparing without regard to case (COLLATE NOCASE)
find_by_hash_nocase(store, hash, io) ==
    IF io THEN [ ok |-> FALSE, err |-> "SqliteError", doc |-> None ]
    ELSE IF \E d \in store : ToUpper(d.content_hash) = ToUpper(hash)
    THEN [ ok |-> TRUE, err |-> "",
           doc |-> CHOOSE d \in store : ToUpper(d.content_hash) = ToUpper(hash) ]
    ELSE [ ok |-> FALSE, err |-> "NotFound", doc |-> None ]

\* find_by_hash without .optional(): no row is an error of the engine
find_by_hash_storage_error(store, hash, io) ==
    IF io THEN [ ok |-> FALSE, err |-> "SqliteError", doc |-> None ]
    ELSE IF \E d \in store : d.content_hash = hash
    THEN [ ok |-> TRUE, err |-> "", doc |-> CHOOSE d \in store : d.content_hash = hash ]
    ELSE [ ok |-> FALSE, err |-> "SqliteError", doc |-> None ]

\* find_by_hash with a query that matches no row
find_by_hash_no_match(store, hash, io) ==
    IF io THEN [ ok |-> FALSE, err |-> "SqliteError", doc |-> None ]
    ELSE [ ok |-> FALSE, err |-> "NotFound", doc |-> None ]

\* SqliteRepository::find_by_hash
find_by_hash(store, hash, io) ==
    IF io THEN [ ok |-> FALSE, err |-> "SqliteError", doc |-> None ]
    ELSE IF \E d \in store : d.content_hash = hash
    THEN [ ok |-> TRUE, err |-> "",
           doc |-> row_to_document(SelectedColumns(
                       CHOOSE d \in store : d.content_hash = hash)) ]
    ELSE [ ok |-> FALSE, err |-> "NotFound", doc |-> None ]

\* SqliteRepository::find_by_id
find_by_id(store, id, io) ==
    IF io THEN [ ok |-> FALSE, err |-> "SqliteError", doc |-> None ]
    ELSE IF \E d \in store : d.id = id
    THEN [ ok |-> TRUE, err |-> "",
           doc |-> row_to_document(SelectedColumns(CHOOSE d \in store : d.id = id)) ]
    ELSE [ ok |-> FALSE, err |-> "NotFound", doc |-> None ]

\* count_documents as SELECT COUNT(DISTINCT submitted_by)
count_documents_by_submitter(store) == Cardinality({ d.submitted_by : d \in store })

\* SqliteRepository::count_documents
count_documents(store) == Cardinality(store)

\* Display of the error a failed save returns: DuplicateHash's text, or the
\* engine's own text for any other failure
SaveErrorMessage(res) ==
    IF res = "DuplicateHash" THEN "Duplicate document hash"
    ELSE "sqlite failure"


\* ------------------------------------------------------------------- state
VARIABLES
    db,           \* rows of the persistent store (NOTARY_DB_PATH / DB_PATH)
    nextId,       \* number of uuids drawn so far, plus one
    storeFaulty,  \* the SQLite engine may fail with an error of its own
    hostFaulty,   \* a call to the rollup host may fail
    driver,       \* position and status of the loop of main
    proc,         \* per caller: position in NotarizeUseCase::execute
    notices,      \* payloads the host accepted on /notice, oldest first
    last,         \* the request handled last: its outputs and its return
    replay        \* a second run of the application fed the same requests

vars ==
    << db, nextId, storeFaulty, hostFaulty, driver, proc, notices, last, replay >>

\* outcomes of one engine call: FALSE works, TRUE is an engine failure
IoOutcomes == IF storeFaulty THEN BOOLEAN ELSE { FALSE }

\* before the first request
NoRequest == [ kind |-> "none" ]

\* the second run before its first request: an empty store, nothing emitted
NoReplay == [ db |-> {}, notices |-> <<>>, last |-> NoRequest, override |-> FALSE ]

\* calls lists the store calls made so far in the current execute, each with
\* what it returned
Idle ==
    [ pc |-> "idle", args |-> None, doc |-> None, res |-> None, race |-> FALSE,
      calls |-> <<>> ]

\* what a find call returned, as one word
FindReturn(found) == IF found.ok THEN "Ok" ELSE found.err

\* an error value: its variant and the text it carries
Error(kind, msg) == [ kind |-> kind, msg |-> msg ]

Failure(kind, msg) == [ ok |-> FALSE, err |-> Error(kind, msg), receipt |-> None ]

Success(receipt) == [ ok |-> TRUE, err |-> Error("", ""), receipt |-> receipt ]

Hashes(store) == { d.content_hash : d \in store }

\* -------------------------------------------------- NotarizeUseCase::execute
\* execute with the file name validated before the content
NotarizeCheck_filename_first(store, args, id, now, io) ==
    IF Trim(args.file_name) = <<>> THEN
        [ pc |-> "done", args |-> args, doc |-> None,
          res |-> Failure("EmptyFilename", ""), race |-> FALSE, calls |-> <<>> ]
    ELSE IF args.content = <<>> THEN
        [ pc |-> "done", args |-> args, doc |-> None,
          res |-> Failure("EmptyContent", ""), race |-> FALSE, calls |-> <<>> ]
    ELSE
        LET document == Document_new(args.content, args.file_name, args.mime_type,
                                     args.submitted_by, id, now)
            found    == find_by_hash(store, document.content_hash, io)
            called   == << << "find_by_hash", FindReturn(found) >> >>
        IN  IF found.ok THEN
                [ pc |-> "done", args |-> args, doc |-> document,
                  res |-> Failure("DuplicateDocument", ""), race |-> FALSE,
                  calls |-> called ]
            ELSE
                [ pc |-> "save", args |-> args, doc |-> document,
                  res |-> None, race |-> FALSE, calls |-> called ]

\* lines 38-53: validation, Document::new and the find_by_hash pre-check.
\* The result is the caller's next position.
NotarizeCheck(store, args, id, now, io) ==
    IF args.content = <<>> THEN
        [ pc |-> "done", args |-> args, doc |-> None,
          res |-> Failure("EmptyContent", ""), race |-> FALSE, calls |-> <<>> ]
    ELSE IF Trim(args.file_name) = <<>> THEN
        [ pc |-> "done", args |-> args, doc |-> None,
          res |-> Failure("EmptyFilename", ""), race |-> FALSE, calls |-> <<>> ]
    ELSE
        LET document == Document_new(args.content, args.file_name, args.mime_type,
                                     args.submitted_by, id, now)
            found    == find_by_hash(store, document.content_hash, io)
            called   == << << "find_by_hash", FindReturn(found) >> >>
        IN  IF found.ok THEN
                [ pc |-> "done", args |-> args, doc |-> document,
                  res |-> Failure("DuplicateDocument", ""), race |-> FALSE,
                  calls |-> called ]
            ELSE
                [ pc |-> "save", args |-> args, doc |-> document,
                  res |-> None, race |-> FALSE, calls |-> called ]

\* whether the call draws a uuid (Document::new runs only after validation)
DrawsId(args) == args.content # <<>> /\ Trim(args.file_name) # <<>>

\* the receipt built with the placeholder block number of the verify path
NotarizeSaveResult_zero_block(saved, document, block_number) ==
    IF saved.res = "Ok" THEN
        Success(NotarizationReceipt_new(document.id, document.content_hash,
                                        document.created_at, 0))
    ELSE Failure("DatabaseError", SaveErrorMessage(saved.res))

\* lines 55-68: save_document, map_err to DatabaseError, receipt
NotarizeSaveResult(saved, document, block_number) ==
    IF saved.res = "Ok" THEN
        Success(NotarizationReceipt_new(document.id, document.content_hash,
                                        document.created_at, block_number))
    ELSE Failure("DatabaseError", SaveErrorMessage(saved.res))

NotarizeArgs ==
    { [ content |-> c, file_name |-> m.file_name, mime_type |-> m.mime_type,
        submitted_by |-> m.submitted_by, block_number |-> m.block_number ] :
      c \in Contents, m \in Metadata }

\* a caller enters execute and runs it up to the pre-check
NotarizeBegin(p) ==
    /\ proc[p].pc = "idle"
    /\ \E args \in NotarizeArgs, now \in Times, io \in IoOutcomes :
          /\ DrawsId(args) => nextId <= MaxIds
          /\ LET next == NotarizeCheck(db, args, nextId, now, io)
                 racing == { q \in Procs \ { p } :
                               /\ next.pc = "save"
                               /\ proc[q].pc = "save"
                               /\ proc[q].doc.content_hash = next.doc.content_hash }
             IN  proc' = [ q \in Procs |->
                             IF q = p THEN [ next EXCEPT !.race = racing # {} ]
                             ELSE IF q \in racing THEN [ proc[q] EXCEPT !.race = TRUE ]
                             ELSE proc[q] ]
          /\ nextId' = IF DrawsId(args) THEN nextId + 1 ELSE nextId
    /\ UNCHANGED << db, storeFaulty, hostFaulty, driver, notices, last, replay >>

\* the caller that passed the pre-check saves and builds the receipt
NotarizeSave(p) ==
    /\ proc[p].pc = "save"
    /\ \E io \in IoOutcomes :
          LET saved == save_document(db, proc[p].doc, io)
          IN  /\ db' = saved.store
              /\ proc' = [ proc EXCEPT ![p].pc = "done",
                             ![p].res = NotarizeSaveResult(saved, proc[p].doc,
                                                           proc[p].args.block_number),
                             ![p].calls = Append(proc[p].calls,
                                                 << "save_document", saved.res >>) ]
    /\ UNCHANGED << nextId, storeFaulty, hostFaulty, driver, notices, last, replay >>

\* execute has returned; the caller may call again
NotarizeReturn(p) ==
    /\ proc[p].pc = "done"
    /\ proc' = [ proc EXCEPT ![p] = Idle ]
    /\ UNCHANGED << db, nextId, storeFaulty, hostFaulty, driver, notices, last, replay >>

\* ---------------------------------------------------------- specifications
\* no request delivered
NoDelivery == [ typed |-> FALSE, request_type |-> "", request |-> NoRequest ]

\* main before its first finish: let mut status = "accept"; sent is the
\* status of the finish sent last, nth counts the finishes sent (0, 1, more),
\* idle tells that the finish sent last was answered 202 Accepted
DriverStart ==
    [ pc |-> "finish", status |-> "accept", sent |-> "", nth |-> 0,
      delivered |-> NoDelivery, exit |-> "", idle |-> FALSE ]

Init ==
    /\ db = {}
    /\ nextId = 1
    /\ storeFaulty = FALSE
    /\ hostFaulty = FALSE
    /\ driver = DriverStart
    /\ proc = [ p \in Procs |-> Idle ]
    /\ notices = <<>>
    /\ last = NoRequest
    /\ replay = NoReplay

Next ==
    \E p \in Procs : NotarizeBegin(p) \/ NotarizeSave(p) \/ NotarizeReturn(p)

\* callers of NotarizeUseCase::execute sharing one store, working engine
Spec == Init /\ [][Next]_vars


\* ------------------------------------------------ direct use of the store
\* documents a caller of the repository can build: Document::new on any
\* content, with a fresh uuid or the id of an earlier document. The store
\* looks at id and content_hash only, so one metadata profile is enough here.
CallerDocuments ==
    { Document_new(c, m.file_name, m.mime_type, m.submitted_by, id, 1000) :
        c \in Contents, m \in { x \in Metadata : x.block_number = 100 /\ x.file_name # <<>> },
        id \in 1..nextId }

\* a direct SqliteRepository::save_document call (as the repository tests do)
SaveDocument ==
    /\ \E doc \in CallerDocuments, io \in IoOutcomes :
          /\ doc.id <= MaxIds
          /\ db' = save_document(db, doc, io).store
          /\ nextId' = IF doc.id = nextId THEN nextId + 1 ELSE nextId
    /\ UNCHANGED << storeFaulty, hostFaulty, driver, proc, notices, last, replay >>

InitStore ==
    /\ db = {}
    /\ nextId = 1
    /\ storeFaulty = TRUE
    /\ hostFaulty = FALSE
    /\ driver = DriverStart
    /\ proc = [ p \in Procs |-> Idle ]
    /\ notices = <<>>
    /\ last = NoRequest
    /\ replay = NoReplay

\* the callers of the use case in SpecStore
StoreCallers == { 1 }

NextStore ==
    \/ \E p \in StoreCallers : NotarizeBegin(p)
    \/ \E p \in StoreCallers : NotarizeSave(p)
    \/ \E p \in StoreCallers : NotarizeReturn(p)
    \/ SaveDocument

\* one caller of the use case next to direct callers of the repository, on
\* an engine whose calls may also fail
SpecStore == InitStore /\ [][NextStore]_vars

\* ------------------------------------------------- VerifyUseCase (verify.rs)
HexDigits == { HexLower[i] : i \in 1..16 } \cup { HexUpper[i] : i \in 1..16 }

\* is_valid_hash accepting lower-case digits only
is_valid_hash_lower_only(hash) ==
    Len(hash) = HashLen /\ \A i \in 1..Len(hash) : hash[i] \in { HexLower[k] : k \in 1..16 }

\* VerifyUseCase::is_valid_hash
is_valid_hash(hash) ==
    Len(hash) = HashLen /\ \A i \in 1..Len(hash) : hash[i] \in HexDigits

\* VerificationResult::not_found
VerificationResult_not_found ==
    [ exists |-> FALSE, document |-> None, receipt |-> None ]

\* found with exists telling whether the document's id is the first uuid
VerificationResult_found_by_id(document) ==
    [ exists   |-> document.id = 1,
      document |-> document,
      receipt  |-> NotarizationReceipt_new(document.id, document.content_hash,
                                           document.created_at, 0) ]

\* found with the receipt stamped 0 instead of the document's created_at
VerificationResult_found_unstamped(document) ==
    [ exists   |-> TRUE,
      document |-> document,
      receipt  |-> NotarizationReceipt_new(document.id, document.content_hash, 0, 0) ]

\* VerificationResult::found: the receipt is rebuilt with block number 0
VerificationResult_found(document) ==
    [ exists   |-> TRUE,
      document |-> document,
      receipt  |-> NotarizationReceipt_new(document.id, document.content_hash,
                                           document.created_at, 0) ]

\* what became of the one store lookup execute may make
Lookup(found) ==
    IF found.ok THEN "found" ELSE IF found.err = "NotFound" THEN "not_found" ELSE "failed"

\* execute answering not_found for every well-formed hash
VerifyExecute_never_found(store, content_hash, io) ==
    IF ~is_valid_hash(content_hash) THEN
        [ ok |-> FALSE, err |-> Error("InvalidHashFormat", ""), result |-> None,
          lookup |-> "none" ]
    ELSE [ ok |-> TRUE, err |-> Error("", ""), result |-> VerificationResult_not_found,
           lookup |-> Lookup(find_by_hash(store, content_hash, io)) ]

\* execute returning a failed lookup to its caller as DatabaseError
VerifyExecute_returns_lookup_error(store, content_hash, io) ==
    IF ~is_valid_hash(content_hash) THEN
        [ ok |-> FALSE, err |-> Error("InvalidHashFormat", ""), result |-> None,
          lookup |-> "none" ]
    ELSE
        LET found == find_by_hash(store, content_hash, io)
        IN  IF found.ok \/ found.err = "NotFound"
            THEN [ ok |-> TRUE, err |-> Error("", ""),
                   result |-> IF found.ok THEN VerificationResult_found(found.doc)
                              ELSE VerificationResult_not_found,
                   lookup |-> Lookup(found) ]
            ELSE [ ok |-> FALSE, err |-> Error("DatabaseError", "sqlite failure"),
                   result |-> None, lookup |-> Lookup(found) ]

\* VerifyUseCase::execute; lookup records what its find_by_hash call
\* returned, "none" when it made no call
VerifyExecute(store, content_hash, io) ==
    IF ~is_valid_hash(content_hash) THEN
        [ ok |-> FALSE, err |-> Error("InvalidHashFormat", ""), result |-> None,
          lookup |-> "none" ]
    ELSE
        LET found == find_by_hash(store, content_hash, io)
        IN  [ ok |-> TRUE, err |-> Error("", ""),
              result |-> IF found.ok THEN VerificationResult_found(found.doc)
                         ELSE VerificationResult_not_found,
              lookup |-> Lookup(found) ]

\* ------------------------------------- NotarizeUseCase::execute, as one call
\* io.find and io.save are the engine outcomes of its two store calls
NotarizeExecute(store, args, id, now, io) ==
    LET checked == NotarizeCheck(store, args, id, now, io.find)
    IN  IF checked.pc = "done" THEN [ res |-> checked.res, store |-> store ]
        ELSE LET saved == save_document(store, checked.doc, io.save)
             IN  [ res   |-> NotarizeSaveResult(saved, checked.doc, args.block_number),
                   store |-> saved.store ]

\* ------------------------------------------------------ error texts (Display)
\* #[error(...)] of NotarizeError and VerifyError, as the pieces of the text
Display(err) ==
    IF err.kind = "EmptyContent" THEN << "Content cannot be empty" >>
    ELSE IF err.kind = "EmptyFilename" THEN << "Filename cannot be empty" >>
    ELSE IF err.kind = "DuplicateDocument"
         THEN << "Document with this content hash already exists" >>
    ELSE IF err.kind = "InvalidHashFormat"
         THEN << "Invalid hash format: must be 64 hexadecimal characters" >>
    ELSE << "Database error: ", err.msg >>

\* ------------------------------------------------------------ output payloads
\* format!("{{\"error\":\"{}\"}}", text)
ErrorReport(text) == [ error |-> text ]

\* NoticeResponse::notarization, serialized
NoticeResponse_notarization(receipt) ==
    [ type |-> "notarization_receipt", receipt |-> receipt ]

\* ReportResponse::from_verification, serialized: a field that is None is
\* left out of the JSON object (skip_serializing_if), None standing for it
ReportResponse_from_verification(result) ==
    [ exists |-> result.exists, document |-> result.document, receipt |-> result.receipt ]

\* ------------------------------------------------------------------ requests
ZeroAddress == "0x0000000000000000000000000000000000000000"

\* hash strings a verify request may carry: the digests of two contents, one
\* of them in upper case, a digest never stored, one character short, one
\* character long, and with a character that is no hex digit
VerifyHashes ==
    { Sha256Hex(<<1>>), Sha256Hex(<<2>>), ToUpper(Sha256Hex(<<1>>)),
      [ i \in 1..HashLen |-> "a" ],
      [ i \in 1..(HashLen - 1) |-> "a" ],
      [ i \in 1..(HashLen + 1) |-> "a" ],
      [ i \in 1..HashLen |-> IF i = 1 THEN "z" ELSE "a" ] }

\* The payload of a request by what the decoding steps make of it:
\*   shape "missing"  data.payload is no string
\*         "nonhex"   hex::decode fails
\*         "nonutf8"  str::from_utf8 fails
\*         "badjson"  the text is no JSON
\*         "action"   a JSON object tagged with action (InputAction shape)
\*         "bare"     a JSON object with a top-level content_hash (VerifyRequest)
Payload(shape, action, content_valid, content, file_name, mime_type, content_hash) ==
    [ shape |-> shape, action |-> action, content_valid |-> content_valid,
      content |-> content, file_name |-> file_name, mime_type |-> mime_type,
      content_hash |-> content_hash ]

PlainPayload(shape, action) == Payload(shape, action, FALSE, <<>>, <<>>, "", <<>>)

UndecodablePayloads ==
    { PlainPayload("missing", ""), PlainPayload("nonhex", ""),
      PlainPayload("nonutf8", ""), PlainPayload("badjson", ""),
      PlainPayload("action", "other") }

VerifyPayloads ==
    { Payload(shape, action, FALSE, <<>>, <<>>, "", h) :
        shape \in { "action" }, action \in { "verify" }, h \in VerifyHashes }

BareVerifyPayloads ==
    { Payload("bare", "", FALSE, <<>>, <<>>, "", h) : h \in VerifyHashes }

\* metadata of an advance request; present = FALSE is a request without it
RequestMetadata(present, msg_sender, block_number) ==
    [ present |-> present, msg_sender |-> msg_sender, block_number |-> block_number ]

NoMetadata == RequestMetadata(FALSE, "", 0)

Request(kind, payload, metadata) ==
    [ kind |-> kind, payload |-> payload, metadata |-> metadata ]

\* contents and metadata profiles of the notarize requests: the first
\* content under every profile, the others under a plain and an empty name
NotarizeCases ==
    { cm \in Contents \X Metadata :
        cm[1] = <<1>> \/ cm[2].block_number = 100 }

\* notarize requests: the cases above with request metadata, one without
\* metadata, and one whose content is no base64
NotarizeRequests ==
    { Request("advance",
              Payload("action", "notarize", TRUE, cm[1], cm[2].file_name,
                      cm[2].mime_type, <<>>),
              RequestMetadata(TRUE, cm[2].submitted_by, cm[2].block_number)) :
        cm \in NotarizeCases }
    \cup
    { Request("advance",
              Payload("action", "notarize", TRUE, <<1>>, <<"a">>, "text/plain", <<>>),
              NoMetadata),
      Request("advance",
              Payload("action", "notarize", FALSE, <<>>, <<"a">>, "text/plain", <<>>),
              RequestMetadata(TRUE, "0x111", 100)) }

AdvanceRequests ==
    NotarizeRequests
    \cup { Request("advance", pl, RequestMetadata(TRUE, "0x111", 100)) :
             pl \in UndecodablePayloads \cup VerifyPayloads }
    \cup { Request("advance", pl, RequestMetadata(TRUE, "0x111", 100)) :
             pl \in { Payload("bare", "", FALSE, <<>>, <<>>, "", Sha256Hex(<<1>>)) } }

InspectRequests ==
    { Request("inspect", pl, NoMetadata) :
        pl \in UndecodablePayloads \cup BareVerifyPayloads \cup
               { Payload("action", "verify", FALSE, <<>>, <<>>, "", Sha256Hex(<<1>>)) } }

\* clock values the handlers see; they only copy the value into the document
RequestTimes == { 1000 }

\* ------------------------------------------------------------------ handlers
\* what a handler call did: its return value (Ok(verdict) or Err), the
\* outputs the host accepted, the store it opened ("none" when it returned
\* before get_repository), the rows it leaves there and the use case's result
Returned(verdict) == [ ok |-> TRUE, verdict |-> verdict, err |-> "" ]

Raised(err) == [ ok |-> FALSE, verdict |-> "", err |-> err ]

Outcome(ret, notice_seq, report_seq, repo, res) ==
    [ ret |-> ret, notices |-> notice_seq, reports |-> report_seq,
      opened |-> repo.opened, store |-> repo.store, res |-> res ]

\* no store was opened
NoRepository == [ opened |-> "none", store |-> {} ]

\* send_report called twice before Ok(verdict)
ReportThen_twice(payload, verdict, hostFails, repo, res) ==
    IF hostFails THEN Outcome(Raised("Failed to send report"), <<>>, <<>>, repo, res)
    ELSE Outcome(Returned(verdict), <<>>, << payload, payload >>, repo, res)

\* Ok(verdict) without the send_report call
ReportThen_without_report(payload, verdict, hostFails, repo, res) ==
    Outcome(Returned(verdict), <<>>, <<>>, repo, res)

\* send_report(..).await?; then Ok(verdict)
ReportThen(payload, verdict, hostFails, repo, res) ==
    IF hostFails THEN Outcome(Raised("Failed to send report"), <<>>, <<>>, repo, res)
    ELSE Outcome(Returned(verdict), <<>>, << payload >>, repo, res)

\* send_notice with its failure ignored: Ok(verdict) either way
NoticeThen_ignores_failure(payload, verdict, hostFails, repo, res) ==
    IF hostFails THEN Outcome(Returned(verdict), <<>>, <<>>, repo, res)
    ELSE Outcome(Returned(verdict), << payload >>, <<>>, repo, res)

\* send_notice followed by a send_report of the same payload
NoticeThen_also_reports(payload, verdict, hostFails, repo, res) ==
    IF hostFails THEN Outcome(Raised("Failed to send notice"), <<>>, <<>>, repo, res)
    ELSE Outcome(Returned(verdict), << payload >>, << payload >>, repo, res)

\* send_notice(..).await?; then Ok(verdict)
NoticeThen(payload, verdict, hostFails, repo, res) ==
    IF hostFails THEN Outcome(Raised("Failed to send notice"), <<>>, <<>>, repo, res)
    ELSE Outcome(Returned(verdict), << payload >>, <<>>, repo, res)

\* serde_json::from_str::<InputAction>
ParsesAsInputAction(payload) ==
    payload.shape = "action" /\ payload.action \in { "notarize", "verify" }

\* serde_json::from_str::<VerifyRequest>
ParsesAsVerifyRequest(payload) == payload.shape = "bare"

\* msg_sender.as_str().unwrap_or("")
Submitter_or_empty(metadata) ==
    IF metadata.present THEN metadata.msg_sender ELSE ""

\* msg_sender.as_str().unwrap_or(zero address)
Submitter(metadata) ==
    IF metadata.present THEN metadata.msg_sender ELSE ZeroAddress

\* block_number.as_u64().unwrap_or(0)
BlockNumber(metadata) ==
    IF metadata.present THEN metadata.block_number ELSE 0

\* the arguments handle_advance passes to NotarizeUseCase::execute
NotarizeCallArgs(request) ==
    [ content      |-> request.payload.content,
      file_name    |-> request.payload.file_name,
      mime_type    |-> request.payload.mime_type,
      submitted_by |-> Submitter(request.metadata),
      block_number |-> BlockNumber(request.metadata) ]

\* the notarize arm with a failure answered by accept, as handle_inspect does
AdvanceNotarizeReply_accepts_failure(exec, opened, hostFails) ==
    LET repo == [ opened |-> opened, store |-> exec.store ]
    IN  IF exec.res.ok
        THEN NoticeThen(NoticeResponse_notarization(exec.res.receipt), "accept",
                        hostFails, repo, exec.res)
        ELSE ReportThen(ErrorReport(Display(exec.res.err)), "accept",
                        hostFails, repo, exec.res)

\* the notarize arm sending the receipt as a report
AdvanceNotarizeReply_reports_receipt(exec, opened, hostFails) ==
    LET repo == [ opened |-> opened, store |-> exec.store ]
    IN  IF exec.res.ok
        THEN ReportThen(NoticeResponse_notarization(exec.res.receipt), "accept",
                        hostFails, repo, exec.res)
        ELSE ReportThen(ErrorReport(Display(exec.res.err)), "reject",
                        hostFails, repo, exec.res)

\* handle_advance, match on the result of notarize_usecase.execute
AdvanceNotarizeReply(exec, opened, hostFails) ==
    LET repo == [ opened |-> opened, store |-> exec.store ]
    IN  IF exec.res.ok
        THEN NoticeThen(NoticeResponse_notarization(exec.res.receipt), "accept",
                        hostFails, repo, exec.res)
        ELSE ReportThen(ErrorReport(Display(exec.res.err)), "reject",
                        hostFails, repo, exec.res)

\* the verify arm with a failure answered by accept, as handle_inspect does
AdvanceVerifyReply_accepts_failure(verified, repo, hostFails) ==
    IF verified.ok
    THEN ReportThen(ReportResponse_from_verification(verified.result), "accept",
                    hostFails, repo, verified)
    ELSE ReportThen(ErrorReport(Display(verified.err)), "accept",
                    hostFails, repo, verified)

\* handle_advance, match on the result of verify_usecase.execute
AdvanceVerifyReply(verified, repo, hostFails) ==
    IF verified.ok
    THEN ReportThen(ReportResponse_from_verification(verified.result), "accept",
                    hostFails, repo, verified)
    ELSE ReportThen(ErrorReport(Display(verified.err)), "reject",
                    hostFails, repo, verified)

\* handlers::handle_advance; repo is what get_repository returns when called
handle_advance(request, repo, id, now, io, hostFails) ==
    LET payload == request.payload
    IN  IF payload.shape = "missing" THEN
            Outcome(Raised("Missing payload"), <<>>, <<>>, NoRepository, None)
        ELSE IF payload.shape = "nonhex" THEN
            Outcome(Raised("FromHexError"), <<>>, <<>>, NoRepository, None)
        ELSE IF payload.shape = "nonutf8" THEN
            Outcome(Raised("Utf8Error"), <<>>, <<>>, NoRepository, None)
        ELSE IF ~ParsesAsInputAction(payload) THEN
            ReportThen(ErrorReport(<< "Invalid input format: ", "serde_json error" >>),
                       "reject", hostFails, NoRepository, None)
        ELSE IF payload.action = "notarize" THEN
            IF ~payload.content_valid THEN
                ReportThen(ErrorReport(<< "Invalid base64 content: ", "decode error" >>),
                           "reject", hostFails, NoRepository, None)
            ELSE AdvanceNotarizeReply(
                     NotarizeExecute(repo.store, NotarizeCallArgs(request), id, now, io),
                     repo.opened, hostFails)
        ELSE AdvanceVerifyReply(VerifyExecute(repo.store, payload.content_hash, io.find),
                                repo, hostFails)

\* handlers::handle_inspect; repo is what get_repository returns when called
handle_inspect(request, repo, io, hostFails) ==
    LET payload == request.payload
    IN  IF payload.shape = "missing" THEN
            Outcome(Raised("Missing payload"), <<>>, <<>>, NoRepository, None)
        ELSE IF payload.shape = "nonhex" THEN
            Outcome(Raised("FromHexError"), <<>>, <<>>, NoRepository, None)
        ELSE IF payload.shape = "nonutf8" THEN
            Outcome(Raised("Utf8Error"), <<>>, <<>>, NoRepository, None)
        ELSE IF ~ParsesAsVerifyRequest(payload) THEN
            ReportThen(ErrorReport(<< "Invalid request format: ", "serde_json error" >>),
                       "accept", hostFails, NoRepository, None)
        ELSE
            LET verified == VerifyExecute(repo.store, payload.content_hash, io.find)
            IN  IF verified.ok
                THEN ReportThen(ReportResponse_from_verification(verified.result),
                                "accept", hostFails, repo, verified)
                ELSE ReportThen(ErrorReport(Display(verified.err)),
                                "accept", hostFails, repo, verified)

\* handlers::get_repository: SqliteRepository::new(path), or a new in-memory
\* store when the path cannot be opened
get_repository(pathOpens) ==
    IF pathOpens THEN [ opened |-> "path", store |-> db ]
    ELSE [ opened |-> "memory", store |-> {} ]

\* outcomes of one host call: FALSE works, TRUE is a transport failure
HostOutcomes == IF hostFaulty THEN BOOLEAN ELSE { FALSE }

IoPairs == [ find : IoOutcomes, save : IoOutcomes ]

\* whether handle_advance reaches Document::new for this request
AdvanceDrawsId(request) ==
    /\ ParsesAsInputAction(request.payload)
    /\ request.payload.action = "notarize"
    /\ request.payload.content_valid
    /\ DrawsId(NotarizeCallArgs(request))

\* the record kept of a handled request
Handled(request, out) ==
    [ kind |-> request.kind, request |-> request, opened |-> out.opened,
      ret |-> out.ret, res |-> out.res,
      notices |-> out.notices, reports |-> out.reports,
      stored |-> out.store ]

\* whether the handler reaches get_repository for this request
OpensStore(request) ==
    IF request.kind = "advance"
    THEN /\ request.payload.shape = "action"
         /\ ParsesAsInputAction(request.payload)
         /\ request.payload.action = "notarize" => request.payload.content_valid
    ELSE ParsesAsVerifyRequest(request.payload)

NoFault == [ find |-> FALSE, save |-> FALSE ]

\* what the environment decides during one request: whether the path opens
\* and how each engine call ends; nothing to decide when no store is opened
PathChoices(request) == IF OpensStore(request) THEN BOOLEAN ELSE { TRUE }

IoChoices(request) == IF OpensStore(request) THEN IoPairs ELSE { NoFault }

\* one advance_state request, handled from start to return; the store opened
\* for it is dropped at the end, which loses an in-memory store
HandleAdvance ==
    \E request \in AdvanceRequests, now \in RequestTimes, hostFails \in HostOutcomes :
      \E pathOpens \in PathChoices(request), io \in IoChoices(request) :
        /\ AdvanceDrawsId(request) => nextId <= MaxIds
        /\ LET repo == get_repository(pathOpens)
               out  == handle_advance(request, repo, nextId, now, io, hostFails)
           IN  /\ db' = IF out.opened = "path" THEN out.store ELSE db
               /\ notices' = notices \o out.notices
               /\ last' = Handled(request, out)
        /\ nextId' = IF AdvanceDrawsId(request) THEN nextId + 1 ELSE nextId
        /\ UNCHANGED << storeFaulty, hostFaulty, driver, proc, replay >>

\* one inspect_state request, handled from start to return
HandleInspect ==
    \E request \in InspectRequests, hostFails \in HostOutcomes :
      \E pathOpens \in PathChoices(request), io \in IoChoices(request) :
        /\ LET repo == get_repository(pathOpens)
               out  == handle_inspect(request, repo, io, hostFails)
           IN  /\ db' = IF out.opened = "path" THEN out.store ELSE db
               /\ notices' = notices \o out.notices
               /\ last' = Handled(request, out)
        /\ UNCHANGED << nextId, storeFaulty, hostFaulty, driver, proc, replay >>

NextHandlers == HandleAdvance \/ HandleInspect

\* requests handled one after the other; engine and host work, the
\* persistent path may or may not open
SpecHandlers == Init /\ [][NextHandlers]_vars

\* ------------------------------------------------------------- two runs
\* the uuids Uuid::new_v4 may return
Uuids == 1..(MaxIds + 1)

\* the requests fed to both runs: two notarize requests, a verify of each
\* kind for the first content, and a payload that is no JSON
ReplayRequests ==
    { Request("advance",
              Payload("action", "notarize", TRUE, c, <<"a">>, "text/plain", <<>>),
              RequestMetadata(TRUE, "0x111", 100)) : c \in { <<1>>, <<2>> } }
    \cup
    { Request("advance",
              Payload("action", "verify", FALSE, <<>>, <<>>, "", Sha256Hex(<<1>>)),
              RequestMetadata(TRUE, "0x111", 100)),
      Request("advance", PlainPayload("badjson", ""), RequestMetadata(TRUE, "0x111", 100)),
      Request("inspect", Payload("bare", "", FALSE, <<>>, <<>>, "", Sha256Hex(<<1>>)),
              NoMetadata) }

\* a handler call on a store at the path, with engine and host working
Handle(request, store, id, now) ==
    IF request.kind = "advance"
    THEN handle_advance(request, [ opened |-> "path", store |-> store ], id, now,
                        NoFault, FALSE)
    ELSE handle_inspect(request, [ opened |-> "path", store |-> store ], NoFault, FALSE)

\* one request handled by both runs, each on its own store with the uuid and
\* the clock reading its own Document::new draws
ReplayRequest ==
    \E request \in ReplayRequests, now \in Times, replayNow \in Times :
      \E replayId \in Uuids \ { d.id : d \in replay.db } :
        /\ AdvanceDrawsId(request) => nextId <= MaxIds
        /\ LET out  == Handle(request, db, nextId, now)
               outR == Handle(request, replay.db, replayId, replayNow)
           IN  /\ db' = IF out.opened = "path" THEN out.store ELSE db
               /\ notices' = notices \o out.notices
               /\ last' = Handled(request, out)
               /\ replay' = [ db |-> IF outR.opened = "path" THEN outR.store
                                     ELSE replay.db,
                              notices |-> replay.notices \o outR.notices,
                              last |-> Handled(request, outR),
                              override |-> replay.override ]
        /\ nextId' = IF AdvanceDrawsId(request) THEN nextId + 1 ELSE nextId
        /\ UNCHANGED << storeFaulty, hostFaulty, driver, proc >>

\* two runs of the handlers fed the same requests from empty stores
SpecReplay == Init /\ [][ReplayRequest]_vars

\* ------------------------------------------- the handlers of main.rs beside
\* the path get_repository of handlers.rs opens: NOTARY_DB_PATH when the
\* variable is set, else DB_PATH
db_path(override) == IF override THEN "NOTARY_DB_PATH" ELSE "DB_PATH"

\* the path get_repository of main.rs opens: DB_PATH, whatever is set
main_db_path(override) == "DB_PATH"

\* a document notarized before this run started
EarlierDocument == Document_new(<<1>>, <<"a">>, "text/plain", "0x111", 0, 999)

\* what the configured store may hold when the run starts
InitialStores == { {}, { EarlierDocument } }

\* handle_advance and handle_inspect of main.rs: the text of handlers.rs
main_handle(request, store, id, now) == Handle(request, store, id, now)

\* db is the store at the configured path, which the handlers of handlers.rs
\* open; replay runs the handlers of main.rs, on the same store when they
\* open the same path and on the store at their own path, empty so far,
\* when they do not
InitOverride ==
    /\ db \in InitialStores
    /\ nextId = 1
    /\ storeFaulty = FALSE
    /\ hostFaulty = FALSE
    /\ driver = DriverStart
    /\ proc = [ p \in Procs |-> Idle ]
    /\ notices = <<>>
    /\ last = NoRequest
    /\ \E override \in BOOLEAN :
          replay = [ db |-> IF main_db_path(override) = db_path(override) THEN db
                           ELSE {},
                     notices |-> <<>>, last |-> NoRequest, override |-> override ]

\* one request handled by the handlers of handlers.rs and by those of
\* main.rs, each on the store its get_repository opens, with the same uuid
\* and clock reading
OverrideRequest ==
    \E request \in ReplayRequests, now \in Times :
        /\ AdvanceDrawsId(request) => nextId <= MaxIds
        /\ LET out  == Handle(request, db, nextId, now)
               outM == main_handle(request, replay.db, nextId, now)
           IN  /\ db' = IF out.opened = "path" THEN out.store ELSE db
               /\ notices' = notices \o out.notices
               /\ last' = Handled(request, out)
               /\ replay' = [ db |-> IF outM.opened = "path" THEN outM.store
                                     ELSE replay.db,
                              notices |-> replay.notices \o outM.notices,
                              last |-> Handled(request, outM),
                              override |-> replay.override ]
        /\ nextId' = IF AdvanceDrawsId(request) THEN nextId + 1 ELSE nextId
        /\ UNCHANGED << storeFaulty, hostFaulty, driver, proc >>

\* the two sets of handlers fed the same requests, with and without
\* NOTARY_DB_PATH set
SpecOverride == InitOverride /\ [][OverrideRequest]_vars

InitHandlersFaults ==
    /\ db = {}
    /\ nextId = 1
    /\ storeFaulty = TRUE
    /\ hostFaulty = FALSE
    /\ driver = DriverStart
    /\ proc = [ p \in Procs |-> Idle ]
    /\ notices = <<>>
    /\ last = NoRequest
    /\ replay = NoReplay

\* the same requests on an engine whose calls may fail
SpecHandlersFaults == InitHandlersFaults /\ [][NextHandlers]_vars

\* ------------------------------------------------------ driver loop (main)
\* a request in the body of a finish response: typed says whether its
\* request_type is a string
Delivery(typed, request_type, request) ==
    [ typed |-> typed, request_type |-> request_type, request |-> request ]

\* the request bodies delivered under a request_type no handler is routed to
UnroutedRequests ==
    { Request("advance",
              Payload("action", "notarize", TRUE, <<1>>, <<"a">>, "text/plain", <<>>),
              RequestMetadata(TRUE, "0x111", 100)) }

\* hashes of the verify requests the host delivers: one that notarize
\* requests can store, and one with a character that is no hex digit
DeliveredHashes ==
    { Sha256Hex(<<1>>), [ i \in 1..HashLen |-> IF i = 1 THEN "z" ELSE "a" ] }

\* the requests the host delivers: every payload the decoding steps refuse,
\* notarize requests for one content and for the empty one, one whose
\* content is no base64, and verify requests for the hashes above
DeliveredPayload(payload) ==
    \/ payload \in UndecodablePayloads
    \/ payload.shape = "bare" /\ payload.content_hash \in DeliveredHashes
    \/ /\ payload.shape = "action" /\ payload.action = "verify"
       /\ payload.content_hash \in DeliveredHashes
    \/ /\ payload.shape = "action" /\ payload.action = "notarize"
       /\ payload.content \in { <<>>, <<1>> }
       /\ payload.file_name = <<"a">>

\* what the host may deliver in answer to a finish
Deliveries ==
    { Delivery(TRUE, "advance_state", r) :
        r \in { x \in AdvanceRequests : DeliveredPayload(x.payload) } }
    \cup { Delivery(TRUE, "inspect_state", r) :
            r \in { x \in InspectRequests : DeliveredPayload(x.payload) } }
    \cup { Delivery(TRUE, "unknown_state", r) : r \in UnroutedRequests }
    \cup { Delivery(FALSE, "", r) : r \in UnroutedRequests }

\* answers of the host to POST /finish: a delivered request, 202 Accepted
\* (nothing pending), and on a failing host a transport error or a body
\* that is no JSON text
FinishAnswers ==
    { "request", "accepted" }
    \cup (IF hostFaulty THEN { "transport_error", "unreadable_body" } ELSE {})

RoutedTypes == { "advance_state", "inspect_state" }

\* the delivery is routed to a handler
Routed(delivered) == delivered.typed /\ delivered.request_type \in RoutedTypes

\* the handler's call of Document::new is reached
DeliveryDrawsId(delivered) ==
    /\ Routed(delivered)
    /\ delivered.request_type = "advance_state"
    /\ AdvanceDrawsId(delivered.request)

\* the finishes sent so far, counted up to "more than one"
CountFinish(nth) == IF nth = 0 THEN 1 ELSE 2

\* the status after a finish answered 202 Accepted, reset to accept
StatusAfterAccepted_resets(status) == "accept"

\* main, lines 231-233: the 202 branch assigns nothing, the status stays
StatusAfterAccepted(status) == status

\* main, lines 221-240: send finish with the current status and read the
\* answer up to the request_type
Finish ==
    /\ driver.pc = "finish"
    /\ \E answer \in FinishAnswers :
          \/ /\ answer = "transport_error"
             /\ driver' = [ driver EXCEPT !.pc = "exited",
                                           !.exit = "Failed to send finish" ]
          \/ /\ answer = "unreadable_body"
             /\ driver' = [ driver EXCEPT !.pc = "exited",
                                           !.sent = driver.status,
                                           !.nth = CountFinish(driver.nth),
                                           !.exit = "Unreadable finish response" ]
          \/ /\ answer = "accepted"
             /\ driver' = [ driver EXCEPT !.sent = driver.status,
                                           !.nth = CountFinish(driver.nth),
                                           !.status = StatusAfterAccepted(driver.status),
                                           !.idle = TRUE ]
          \/ /\ answer = "request"
             /\ \E delivered \in Deliveries :
                   /\ DeliveryDrawsId(delivered) => nextId <= MaxIds
                   /\ driver' = [ driver EXCEPT !.pc = "dispatch",
                                                 !.sent = driver.status,
                                                 !.nth = CountFinish(driver.nth),
                                                 !.delivered = delivered,
                                                 !.idle = FALSE ]
    /\ UNCHANGED << db, nextId, storeFaulty, hostFaulty, proc, notices, last, replay >>

\* every request_type routed to handle_advance
main_dispatch_routes_all(delivered, repo, id, now, io, hostFails) ==
    handle_advance(delivered.request, repo, id, now, io, hostFails)

\* main, lines 238-251: request_type must be a string, then the match on it
main_dispatch(delivered, repo, id, now, io, hostFails) ==
    IF ~delivered.typed THEN
        Outcome(Raised("request_type is not a string"), <<>>, <<>>, NoRepository, None)
    ELSE IF delivered.request_type = "advance_state" THEN
        handle_advance(delivered.request, repo, id, now, io, hostFails)
    ELSE IF delivered.request_type = "inspect_state" THEN
        handle_inspect(delivered.request, repo, io, hostFails)
    ELSE Outcome(Returned("reject"), <<>>, <<>>, NoRepository, None)

\* the status left untouched by the verdict
StatusAfter_keeps_status(status, ret) == status

\* status = match request_type { ... }: the verdict replaces the status
StatusAfter(status, ret) == ret.verdict

\* the record kept of a dispatched delivery; kind tells which handler ran
Dispatched(delivered, out) ==
    [ Handled(delivered.request, out) EXCEPT
        !.kind = IF ~Routed(delivered) THEN "unrouted"
                 ELSE IF delivered.request_type = "advance_state" THEN "advance"
                 ELSE "inspect" ]

\* what the environment decides while the delivery is dispatched
DeliveryPathChoices(delivered) ==
    IF Routed(delivered) THEN PathChoices(delivered.request) ELSE { TRUE }

DeliveryIoChoices(delivered) ==
    IF Routed(delivered) THEN IoChoices(delivered.request) ELSE { NoFault }

\* main, lines 238-252: dispatch the delivered request; the verdict becomes
\* the status of the next finish, an Err leaves main through "?"
Dispatch ==
    /\ driver.pc = "dispatch"
    /\ \E now \in RequestTimes, hostFails \in HostOutcomes :
        \E pathOpens \in DeliveryPathChoices(driver.delivered),
           io \in DeliveryIoChoices(driver.delivered) :
          LET repo == get_repository(pathOpens)
              out  == main_dispatch(driver.delivered, repo, nextId, now, io, hostFails)
          IN  /\ db' = IF out.opened = "path" THEN out.store ELSE db
              /\ notices' = notices \o out.notices
              /\ last' = Dispatched(driver.delivered, out)
              /\ driver' = IF out.ret.ok
                           THEN [ driver EXCEPT !.pc = "finish",
                                                !.status = StatusAfter(driver.status, out.ret),
                                                !.delivered = NoDelivery ]
                           ELSE [ driver EXCEPT !.pc = "exited",
                                                !.exit = out.ret.err,
                                                !.delivered = NoDelivery ]
    /\ nextId' = IF DeliveryDrawsId(driver.delivered) THEN nextId + 1 ELSE nextId
    /\ UNCHANGED << storeFaulty, hostFaulty, proc, replay >>

NextDriver == Finish \/ Dispatch

\* the loop of main against a host whose calls all succeed
SpecDriver == Init /\ [][NextDriver]_vars

InitDriverFaults ==
    /\ db = {}
    /\ nextId = 1
    /\ storeFaulty = FALSE
    /\ hostFaulty = TRUE
    /\ driver = DriverStart
    /\ proc = [ p \in Procs |-> Idle ]
    /\ notices = <<>>
    /\ last = NoRequest
    /\ replay = NoReplay

\* the loop of main against a host whose calls may fail
SpecDriverFaults == InitDriverFaults /\ [][NextDriver]_vars

\* the loop of main scheduled fairly against a host whose calls all succeed
SpecDriverFair == Init /\ [][NextDriver]_vars /\ WF_vars(Finish) /\ WF_vars(Dispatch)

\* ------------------------------------------- direct use of VerifyUseCase
\* a call of VerifyUseCase::execute on the store as it is, as the use case
\* tests make it; the call and its result are kept in last
VerifyCall ==
    /\ \E content_hash \in VerifyHashes, io \in IoOutcomes :
          last' = [ kind |-> "verify", content_hash |-> content_hash,
                    res |-> VerifyExecute(db, content_hash, io) ]
    /\ UNCHANGED << db, nextId, storeFaulty, hostFaulty, driver, proc, notices, replay >>

NextVerify == SaveDocument \/ VerifyCall

\* callers of the Verify use case next to writers of the store, on an engine
\* whose calls may fail
SpecVerify == InitStore /\ [][NextVerify]_vars

\* ------------------------------------------------ callers of the repository
\* a save_document call of a direct caller, which keeps what it passed and
\* what came back
SaveCall ==
    /\ \E doc \in CallerDocuments, io \in IoOutcomes :
          LET saved == save_document(db, doc, io)
          IN  /\ doc.id <= MaxIds
              /\ db' = saved.store
              /\ nextId' = IF doc.id = nextId THEN nextId + 1 ELSE nextId
              /\ last' = [ kind |-> "save", doc |-> doc, io |-> io, res |-> saved.res ]
    /\ UNCHANGED << storeFaulty, hostFaulty, driver, proc, notices, replay >>

\* the keys a caller looks up: hashes stored or not, ids drawn or not
FindKeys(by) == IF by = "hash" THEN VerifyHashes ELSE 1..(MaxIds + 1)

\* the stored values of the column a lookup goes by
SavedKeys(store, by) ==
    IF by = "hash" THEN { d.content_hash : d \in store } ELSE { d.id : d \in store }

\* a find_by_hash or find_by_id call of a direct caller
FindCall ==
    /\ \E by \in { "hash", "id" }, io \in IoOutcomes :
          \E key \in FindKeys(by) :
              last' = [ kind |-> "find", by |-> by, key |-> key, io |-> io,
                        res |-> IF by = "hash" THEN find_by_hash(db, key, io)
                                ELSE find_by_id(db, key, io) ]
    /\ UNCHANGED << db, nextId, storeFaulty, hostFaulty, driver, proc, notices, replay >>

\* a count_documents call of a direct caller; the ? after query_row passes
\* an engine failure on
CountCall ==
    /\ \E io \in IoOutcomes :
          last' = [ kind |-> "count", io |-> io,
                    res |-> [ ok |-> ~io,
                              count |-> IF io THEN 0 ELSE count_documents(db) ] ]
    /\ UNCHANGED << db, nextId, storeFaulty, hostFaulty, driver, proc, notices, replay >>

NextRepository == SaveCall \/ FindCall \/ CountCall

\* direct callers of the repository on an engine whose calls may fail
SpecRepository == InitStore /\ [][NextRepository]_vars

\* ------------------------------------------------- hex encoding of payloads
\* longest JSON text, in characters
MaxTextLen == 3

\* characters of a JSON text as their UTF-8 bytes: { " 0, a line feed and a
\* two-byte character
TextChars == { << 123 >>, << 34 >>, << 48 >>, << 10 >>, << 195, 169 >> }

RECURSIVE TextsOfLength(_)
TextsOfLength(n) ==
    IF n = 0 THEN { <<>> }
    ELSE { t \o c : t \in TextsOfLength(n - 1), c \in TextChars }

\* the UTF-8 bytes of the JSON texts of up to MaxTextLen characters
JsonTexts == UNION { TextsOfLength(n) : n \in 0..MaxTextLen }

RECURSIVE HexEncode_unpadded(_)
\* hex encoding that writes a byte below 16 as one digit
HexEncode_unpadded(bytes) ==
    IF bytes = <<>> THEN <<>>
    ELSE (IF bytes[1] < 16 THEN << HexLower[bytes[1] + 1] >>
          ELSE << HexLower[(bytes[1] \div 16) + 1], HexLower[(bytes[1] % 16) + 1] >>)
         \o HexEncode_unpadded(Tail(bytes))

RECURSIVE HexEncode(_)
\* hex::encode: two lower-case digits per byte, high nibble first
HexEncode(bytes) ==
    IF bytes = <<>> THEN <<>>
    ELSE << HexLower[(bytes[1] \div 16) + 1], HexLower[(bytes[1] % 16) + 1] >>
         \o HexEncode(Tail(bytes))

\* the value of a hex digit of either case, -1 for any other character
HexValue(c) ==
    IF \E k \in 1..16 : HexLower[k] = c THEN (CHOOSE k \in 1..16 : HexLower[k] = c) - 1
    ELSE IF \E k \in 1..16 : HexUpper[k] = c
    THEN (CHOOSE k \in 1..16 : HexUpper[k] = c) - 1
    ELSE -1

\* hex::decode: fails on an odd length and on a character that is no hex
\* digit, else one byte per pair of digits
HexDecode(chars) ==
    IF Len(chars) % 2 = 1 THEN [ ok |-> FALSE, err |-> "OddLength", bytes |-> <<>> ]
    ELSE IF \E i \in 1..Len(chars) : HexValue(chars[i]) = -1
    THEN [ ok |-> FALSE, err |-> "InvalidHexCharacter", bytes |-> <<>> ]
    ELSE [ ok |-> TRUE, err |-> "",
           bytes |-> [ i \in 1..(Len(chars) \div 2) |->
                         16 * HexValue(chars[2 * i - 1]) + HexValue(chars[2 * i]) ] ]

RECURSIVE Utf8Valid(_)
\* std::str::from_utf8 on one- and two-byte sequences
Utf8Valid(bytes) ==
    IF bytes = <<>> THEN TRUE
    ELSE IF bytes[1] < 128 THEN Utf8Valid(Tail(bytes))
    ELSE /\ bytes[1] \in 194..223
         /\ Len(bytes) >= 2
         /\ bytes[2] \in 128..191
         /\ Utf8Valid(SubSeq(bytes, 3, Len(bytes)))

\* hex::decode(..).unwrap() then std::str::from_utf8(..).unwrap()
DecodeText(chars) ==
    LET decoded == HexDecode(chars)
    IN  IF ~decoded.ok THEN [ ok |-> FALSE, err |-> decoded.err, text |-> <<>> ]
        ELSE IF ~Utf8Valid(decoded.bytes)
        THEN [ ok |-> FALSE, err |-> "Utf8Error", text |-> <<>> ]
        ELSE [ ok |-> TRUE, err |-> "", text |-> decoded.bytes ]

\* one JSON text hex-encoded as send_notice and send_report encode it, and
\* the posted payload decoded again
HexRoundTrip ==
    /\ \E text \in JsonTexts :
          last' = [ kind |-> "hex", text |-> text, posted |-> HexEncode(text),
                    decoded |-> DecodeText(HexEncode(text)) ]
    /\ UNCHANGED << db, nextId, storeFaulty, hostFaulty, driver, proc, notices, replay >>

\* the payload encoding applied to the JSON texts
SpecHex == Init /\ [][HexRoundTrip]_vars

\* ------------------------------------------------------------------ claims
DuplicateSaveFailure == Failure("DatabaseError", "Duplicate document hash")

\* C1: in every reachable state no two documents of the store share a
\* content_hash and no two share an id.
C1_UniqueHashAndId ==
    \A d1 \in db, d2 \in db :
        (d1.content_hash = d2.content_hash \/ d1.id = d2.id) => d1 = d2

\* C1 witness: the store holds two documents and the constraint has refused
\* an insert of the use case.
C1_Witness ==
    /\ Cardinality(db) >= 2
    /\ \E p \in Procs : proc[p].pc = "done" /\ proc[p].res = DuplicateSaveFailure

\* p enters execute in this step
Enters(p) == proc[p].pc = "idle" /\ proc'[p].pc # "idle"

\* C2 as stated: once a document with the content's hash is stored (an
\* earlier execute succeeded for it), every execute entered later with that
\* content fails with DuplicateDocument, whatever its metadata, and leaves
\* the store unchanged.
C2_Original ==
    [][ \A p \in Procs :
          (Enters(p) /\ Sha256Hex(proc'[p].args.content) \in Hashes(db))
            => (proc'[p].res = Failure("DuplicateDocument", "") /\ db' = db) ]_vars

\* C2 amended: such a later execute fails with DuplicateDocument when its
\* file_name is not blank, with EmptyFilename when it is blank, and leaves
\* the store unchanged in both cases.
C2_LaterExecuteFails ==
    [][ \A p \in Procs :
          (Enters(p) /\ Sha256Hex(proc'[p].args.content) \in Hashes(db))
            => /\ proc'[p].pc = "done"
               /\ proc'[p].res = IF Trim(proc'[p].args.file_name) = <<>>
                                 THEN Failure("EmptyFilename", "")
                                 ELSE Failure("DuplicateDocument", "")
               /\ db' = db ]_vars

\* C2 witness: an execute was refused as a duplicate of a stored document
\* that carries other metadata.
C2_Witness ==
    \E p \in Procs, d \in db :
        /\ proc[p].pc = "done"
        /\ proc[p].res = Failure("DuplicateDocument", "")
        /\ d.content_hash = Sha256Hex(proc[p].args.content)
        /\ d.file_name # proc[p].args.file_name
        /\ d.submitted_by # proc[p].args.submitted_by

StoredFor(hash) == { d \in db : d.content_hash = hash }

\* C3: when two executions for the same content both pass the pre-check
\* before either saves, exactly one save succeeds, the other fails, the
\* store ends with exactly the winner's document for that hash, and that
\* document is still the stored one after the loser's attempt.
C3_RaceOneWinner ==
    \A p \in Procs : \A q \in Procs \ { p } :
        ( /\ proc[p].race /\ proc[q].race
          /\ proc[p].pc = "done"
          /\ proc[q].pc \in { "save", "done" }
          /\ proc[p].doc.content_hash = proc[q].doc.content_hash )
        => /\ proc[q].pc = "save" =>
                (proc[p].res.ok /\ StoredFor(proc[p].doc.content_hash) = { proc[p].doc })
           /\ proc[q].pc = "done" =>
                /\ proc[p].res.ok # proc[q].res.ok
                /\ proc[p].res.ok => StoredFor(proc[p].doc.content_hash) = { proc[p].doc }
                /\ ~proc[p].res.ok => proc[p].res = DuplicateSaveFailure

\* C3 witness: both racing executions have returned.
C3_Witness ==
    \E p \in Procs : \E q \in Procs \ { p } :
        /\ proc[p].race /\ proc[q].race
        /\ proc[p].pc = "done" /\ proc[q].pc = "done"
        /\ proc[p].doc.content_hash = proc[q].doc.content_hash
        /\ proc[p].res.ok /\ ~proc[q].res.ok

\* C4: every execute either returns a receipt, and then the store holds
\* exactly one new document whose id, content_hash and created_at are the
\* receipt's document_id, content_hash and notarized_at, the receipt's
\* block_number being the caller's; or it returns an error and has left the
\* store unchanged.
C4_AllOrNothing ==
    [][ \A p \in Procs :
          /\ (proc[p].pc = "idle" /\ proc'[p].pc = "save") => db' = db
          /\ (proc[p].pc # "done" /\ proc'[p].pc = "done") =>
                IF proc'[p].res.ok THEN
                    LET r == proc'[p].res.receipt
                    IN  \E d \in db' \ db :
                          /\ db' = db \cup { d }
                          /\ d.id = r.document_id
                          /\ d.content_hash = r.content_hash
                          /\ d.created_at = r.notarized_at
                          /\ d.content_hash = Sha256Hex(proc'[p].args.content)
                          /\ r.block_number = proc'[p].args.block_number
                ELSE db' = db ]_vars

\* C4 witness: an execute has returned a receipt for a document it added to
\* a store that already held another one.
C4_Witness ==
    \E p \in Procs :
        /\ proc[p].pc = "done" /\ proc[p].res.ok /\ proc[p].doc \in db
        /\ proc[p].res.receipt.block_number = 101
        /\ Cardinality(db) >= 2

\* ------------------------------------------------- claims on the handlers
\* the handled request is an advance request carrying a notarize action
IsAdvanceNotarize(r) ==
    /\ r.kind = "advance"
    /\ ParsesAsInputAction(r.request.payload)
    /\ r.request.payload.action = "notarize"

\* the handled request is an advance request carrying a verify action
IsAdvanceVerify(r) ==
    /\ r.kind = "advance"
    /\ ParsesAsInputAction(r.request.payload)
    /\ r.request.payload.action = "verify"

\* the handled request is a verify request of either kind
IsVerify(r) ==
    \/ IsAdvanceVerify(r)
    \/ r.kind = "inspect" /\ ParsesAsVerifyRequest(r.request.payload)

\* the Notarize Service was called for the request and failed
NotarizeFailed(r) == IsAdvanceNotarize(r) /\ r.res # None /\ ~r.res.ok

IsVerificationReport(report) == DOMAIN report = { "exists", "document", "receipt" }

NoticedHashes == { notices[i].receipt.content_hash : i \in 1..Len(notices) }

\* rows of the store the handled request had opened
OpenedStore(r) == IF r.opened = "path" THEN db ELSE {}

\* C5 as stated: once a notarize request was answered with accept and a
\* notice, every later verify request for that notice's content_hash emits
\* one report with exists = true, a document and a receipt, whichever store
\* get_repository opened for each request.
C5_NotarizedIsVerifiable ==
    (last.kind # "none" /\ IsVerify(last)
        /\ last.request.payload.content_hash \in NoticedHashes)
    => /\ Len(last.reports) = 1
       /\ IsVerificationReport(last.reports[1])
       /\ last.reports[1].exists
       /\ last.reports[1].document # None
       /\ last.reports[1].receipt # None

\* C6 as stated: over any sequence of advance requests at most one notice is
\* emitted per content hash.
C6_OneNoticePerHash ==
    \A i \in 1..Len(notices), j \in 1..Len(notices) :
        i # j => notices[i].receipt.content_hash # notices[j].receipt.content_hash

\* the notarize request passes validation: base64 content that is not empty
\* and a file name that is not blank
PassesValidation(request) ==
    /\ request.payload.content_valid
    /\ request.payload.content # <<>>
    /\ Trim(request.payload.file_name) # <<>>

\* C7: an advance notarize request that passes validation and whose content
\* hash is not in the store opened for it emits exactly one notice of type
\* notarization_receipt, whose receipt carries the hash of the decoded
\* content and the block_number of the request metadata (0 without
\* metadata), emits no report, and returns accept.
C7_NotarizeEmitsNotice ==
    [][ ( /\ last'.kind = "advance"
          /\ IsAdvanceNotarize(last')
          /\ PassesValidation(last'.request)
          /\ Sha256Hex(last'.request.payload.content)
                \notin Hashes(IF last'.opened = "path" THEN db ELSE {}) )
        => /\ last'.ret = Returned("accept")
           /\ last'.reports = <<>>
           /\ Len(last'.notices) = 1
           /\ last'.notices[1].type = "notarization_receipt"
           /\ last'.notices[1].receipt.content_hash
                = Sha256Hex(last'.request.payload.content)
           /\ last'.notices[1].receipt.block_number
                = BlockNumber(last'.request.metadata)
           /\ notices' = Append(notices, last'.notices[1]) ]_vars

\* C7 witness: a notarize request on the persistent store was answered with
\* a notice for block 101 and accept.
C7_Witness ==
    /\ last.kind = "advance" /\ IsAdvanceNotarize(last)
    /\ last.opened = "path"
    /\ last.ret = Returned("accept")
    /\ Len(last.notices) = 1
    /\ last.notices[1].receipt.block_number = 101
    /\ \E d \in db : d.id = last.notices[1].receipt.document_id

\* C8: when the Notarize Service fails for an advance request (EmptyContent,
\* EmptyFilename, DuplicateDocument or DatabaseError), handle_advance emits
\* exactly one report carrying the error, emits no notice and returns reject.
C8_NotarizeFailureRejected ==
    (last.kind # "none" /\ NotarizeFailed(last))
    => /\ last.res.err.kind \in
            { "EmptyContent", "EmptyFilename", "DuplicateDocument", "DatabaseError" }
       /\ last.ret = Returned("reject")
       /\ last.notices = <<>>
       /\ last.reports = << ErrorReport(Display(last.res.err)) >>

\* C8 witness: a DatabaseError of the service was reported and rejected.
C8_Witness ==
    /\ last.kind # "none" /\ NotarizeFailed(last)
    /\ last.res.err.kind = "DatabaseError"
    /\ last.ret = Returned("reject")
    /\ Len(last.reports) = 1

\* C9 as stated: an advance request gets reject only when a Notarize fails,
\* and every advance request whose action is verify gets accept.
C9_RejectOnlyOnNotarizeFailure ==
    (last.kind = "advance" /\ last.ret.ok)
    => /\ last.ret.verdict = "reject" => NotarizeFailed(last)
       /\ IsAdvanceVerify(last) => last.ret.verdict = "accept"

\* the causes of reject in handle_advance
AdvanceRejectCause(r) ==
    \/ ~ParsesAsInputAction(r.request.payload)
    \/ IsAdvanceNotarize(r) /\ ~r.request.payload.content_valid
    \/ NotarizeFailed(r)
    \/ IsAdvanceVerify(r) /\ ~is_valid_hash(r.request.payload.content_hash)

\* C9 amended: an advance request that returns a verdict gets reject exactly
\* when its payload parses as no notarize or verify action, when the
\* content of a notarize is no base64, when the Notarize Service fails, or
\* when the hash of a verify is malformed; otherwise it gets accept, so a
\* verify with a well-formed hash gets accept whether or not it is found.
C9_RejectCauses ==
    (last.kind = "advance" /\ last.ret.ok)
    => /\ last.ret.verdict \in { "accept", "reject" }
       /\ last.ret.verdict = "reject" <=> AdvanceRejectCause(last)

\* C9 witness: an advance verify with a malformed hash was rejected.
C9_Witness ==
    /\ last.kind = "advance" /\ IsAdvanceVerify(last)
    /\ ~is_valid_hash(last.request.payload.content_hash)
    /\ last.ret = Returned("reject")

\* C10: an advance verify with a well-formed hash emits exactly one report
\* carrying exists, and the document and its receipt when there is one, and
\* returns accept, both when the document is found and when it is not.
C10_AdvanceVerifyReports ==
    (last.kind # "none" /\ IsAdvanceVerify(last)
        /\ is_valid_hash(last.request.payload.content_hash))
    => LET stored == { d \in OpenedStore(last) :
                         d.content_hash = last.request.payload.content_hash }
       IN  /\ last.ret = Returned("accept")
           /\ last.notices = <<>>
           /\ Len(last.reports) = 1
           /\ IsVerificationReport(last.reports[1])
           /\ last.reports[1].exists = (stored # {})
           /\ stored # {} =>
                /\ last.reports[1].document \in stored
                /\ last.reports[1].receipt
                     = NotarizationReceipt_new(last.reports[1].document.id,
                                               last.reports[1].document.content_hash,
                                               last.reports[1].document.created_at, 0)
           /\ stored = {} =>
                /\ last.reports[1].document = None
                /\ last.reports[1].receipt = None

\* C10 witness: an advance verify found the document and reported it.
C10_Witness ==
    /\ last.kind # "none" /\ IsAdvanceVerify(last)
    /\ last.ret = Returned("accept")
    /\ Len(last.reports) = 1
    /\ IsVerificationReport(last.reports[1])
    /\ last.reports[1].exists
    /\ last.reports[1].document \in db

\* ---------------------------------------------- claims on the Verify use case
\* the characters of a hexadecimal digit, either case
HexChars ==
    { "0", "1", "2", "3", "4", "5", "6", "7", "8", "9",
      "a", "b", "c", "d", "e", "f", "A", "B", "C", "D", "E", "F" }

\* the string is not 64 characters long or holds a character that is no
\* hexadecimal digit
Malformed(hash) == Len(hash) # 64 \/ \E i \in 1..Len(hash) : hash[i] \notin HexChars

\* C17: VerifyUseCase::execute fails with InvalidHashFormat for exactly the
\* strings that are not 64 characters long or hold a character that is no
\* hexadecimal digit of either case, and then makes no store lookup; for
\* every other string it succeeds.
C17_InvalidHashFormat ==
    last.kind = "verify" =>
        /\ Malformed(last.content_hash) <=>
                (~last.res.ok /\ last.res.err.kind = "InvalidHashFormat")
        /\ Malformed(last.content_hash) => last.res.lookup = "none"
        /\ ~Malformed(last.content_hash) => (last.res.ok /\ last.res.lookup # "none")

\* C17 witness: a string of 64 characters with one that is no hexadecimal
\* digit was refused on a store that holds documents.
C17_Witness ==
    /\ last.kind = "verify"
    /\ Len(last.content_hash) = 64
    /\ \E i \in 1..64 : last.content_hash[i] \notin HexChars
    /\ ~last.res.ok /\ last.res.err.kind = "InvalidHashFormat"
    /\ last.res.lookup = "none"
    /\ db # {}

\* C18: for a well-formed hash with no stored document, and also when the
\* store lookup fails, VerifyUseCase::execute returns success with
\* exists = false and neither document nor receipt; a failed lookup is never
\* returned as an error.
C18_NotFoundOrLookupFailure ==
    (last.kind = "verify" /\ ~Malformed(last.content_hash))
    => /\ last.res.lookup = "failed" => last.res.ok
       /\ (last.content_hash \notin Hashes(db) \/ last.res.lookup = "failed")
            => /\ last.res.ok
               /\ last.res.result.exists = FALSE
               /\ last.res.result.document = None
               /\ last.res.result.receipt = None

\* C18 witness: the lookup of a stored hash failed and the call answered
\* exists = false.
C18_Witness ==
    /\ last.kind = "verify"
    /\ last.content_hash \in Hashes(db)
    /\ last.res.lookup = "failed"
    /\ last.res.ok
    /\ ~last.res.result.exists

\* the verification report of the request handled last, when it sent one
VerifyReports ==
    IF last.kind \in { "advance", "inspect" }
    THEN { last.reports[i] : i \in { k \in 1..Len(last.reports) :
                                        IsVerificationReport(last.reports[k]) } }
    ELSE {}

ReceiptsOut ==
    { notices[i].receipt : i \in 1..Len(notices) }
    \cup { report.receipt : report \in { x \in VerifyReports : x.receipt # None } }

\* C20: every receipt the program produces, in a notice or in a verify
\* report, has proof "sha256:" followed by its content_hash, "@" and its
\* notarized_at.
C20_ProofFormat ==
    \A receipt \in ReceiptsOut :
        receipt.proof = << "sha256:", receipt.content_hash, "@", receipt.notarized_at >>

\* C20 witness: a notice was sent and the last verify report carries a
\* receipt.
C20_Witness ==
    /\ notices # <<>>
    /\ \E report \in VerifyReports : report.receipt # None
    /\ \A receipt \in ReceiptsOut :
          receipt.proof[2] = receipt.content_hash /\ receipt.proof[4] = 1000

\* ------------------------------------------------ claims on the driver loop
\* C11 as stated: every inspect request the host delivers results in the
\* verdict accept being the status of the next finish, whatever its payload
\* and whatever the verification finds.
C11_InspectReportsAccept ==
    [][ ( /\ driver.pc = "dispatch"
          /\ driver.delivered.typed
          /\ driver.delivered.request_type = "inspect_state" )
        => (driver'.pc = "finish" /\ driver'.status = "accept") ]_vars

\* C12 as stated: when the payload of a request is no valid hex, or does not
\* decode to UTF-8 text, the handler emits one error report and returns
\* reject for an advance request and accept for an inspect request.
C12_DecodeFailureReported ==
    ( /\ last.kind \in { "advance", "inspect" }
      /\ last.request.payload.shape \in { "nonhex", "nonutf8" } )
    => /\ last.ret = Returned(IF last.kind = "advance" THEN "reject" ELSE "accept")
       /\ Len(last.reports) = 1

\* failures of a call to the host: /finish, /notice, /report
HostCallFailures ==
    { "Failed to send finish", "Unreadable finish response",
      "Failed to send notice", "Failed to send report" }

\* C13 as stated: the loop of main exits only when a call to the host
\* fails; no content of a delivered request ends it.
C13_ExitsOnlyOnHostFailure ==
    driver.pc = "exited" => driver.exit \in HostCallFailures

\* C14: the first finish sent carries accept, and every finish sent after a
\* request was processed, up to the next request, carries the verdict
\* returned for that request.
C14_FinishCarriesVerdict ==
    [][ ( /\ driver.pc = "finish"
          /\ driver'.exit # "Failed to send finish" )
        => /\ driver'.nth # 0
           /\ driver.nth = 0 => driver'.sent = "accept"
           /\ last.kind # "none" => driver'.sent = last.ret.verdict ]_vars

\* C14 witness: the finish sent after a rejected advance request carried
\* reject, and the host has answered it with the next request.
C14_Witness ==
    /\ driver.pc = "dispatch"
    /\ last.kind = "advance"
    /\ last.ret = Returned("reject")
    /\ driver.sent = "reject"

C16_LoopRunsForever ==
    /\ (driver.pc = "dispatch") ~> (driver.pc = "finish")
    /\ []<>(driver.pc = "finish")

\* ------------------------------------------------------------ C21
\* C21: execute fails with EmptyContent when the content has zero length and
\* otherwise with EmptyFilename when the trimmed file name is empty, whether
\* or not the content is already stored, and in both cases it returns without
\* a call to the store and the store is what it was.
C21_ValidationFirst ==
    [][ \A p \in Procs :
          Enters(p) =>
            LET entered == proc'[p]
                blank   == Trim(entered.args.file_name) = <<>>
            IN  /\ entered.args.content = <<>> =>
                      /\ entered.pc = "done"
                      /\ entered.res = Failure("EmptyContent", "")
                      /\ entered.calls = <<>>
                      /\ db' = db
                /\ (entered.args.content # <<>> /\ blank) =>
                      /\ entered.pc = "done"
                      /\ entered.res = Failure("EmptyFilename", "")
                      /\ entered.calls = <<>>
                      /\ db' = db ]_vars

\* an execute has failed with EmptyFilename for a content the store holds
C21_Witness ==
    \E p \in Procs :
        /\ proc[p].pc = "done"
        /\ proc[p].res = Failure("EmptyFilename", "")
        /\ proc[p].calls = <<>>
        /\ Sha256Hex(proc[p].args.content) \in Hashes(db)

\* ------------------------------------------------------------ C22
\* what save_document returned to the execute of p ("" when it was not called)
SaveReturned(p) ==
    IF Len(proc[p].calls) = 2 THEN proc[p].calls[2][2] ELSE ""

\* C22: an execute whose save_document call returned DuplicateHash fails with
\* DuplicateDocument, and one whose save_document call failed otherwise fails
\* with DatabaseError carrying the store's message.
C22_SaveFailureTranslated ==
    \A p \in Procs :
        proc[p].pc = "done" =>
            /\ SaveReturned(p) = "DuplicateHash" =>
                  proc[p].res = Failure("DuplicateDocument", "")
            /\ SaveReturned(p) = "SqliteError" =>
                  proc[p].res = Failure("DatabaseError", "sqlite failure")

\* ------------------------------------------------------------ C23
\* C23: a stored document is never updated or deleted: every hash that
\* find_by_hash finds before a step it finds after it, with the same
\* document in every field, whatever the step was, a rejected duplicate
\* submission with other metadata included.
C23_StoredNeverChanges ==
    [][ \A h \in Hashes(db) :
          /\ find_by_hash(db', h, FALSE).ok
          /\ find_by_hash(db', h, FALSE).doc = find_by_hash(db, h, FALSE).doc ]_vars

\* a submission of a stored content under another file name, mime type and
\* submitter has been rejected as a duplicate
C23_Witness ==
    \E p \in Procs :
        /\ proc[p].pc = "done"
        /\ proc[p].res = Failure("DuplicateDocument", "")
        /\ \E d \in db :
              /\ d.content_hash = proc[p].doc.content_hash
              /\ d.file_name # proc[p].args.file_name
              /\ d.mime_type # proc[p].args.mime_type
              /\ d.submitted_by # proc[p].args.submitted_by

\* ------------------------------------------------------------ C24
\* the answer of a find call that found document
Found(document) == [ ok |-> TRUE, err |-> "", doc |-> document ]

\* C24: after save_document(d) succeeds, find_by_hash(d.content_hash) and
\* find_by_id(d.id) return a document equal to d in every field, and the
\* save leaves what they return for the documents saved before unchanged.
C24_SavedIsFound ==
    [][ (last'.kind = "save" /\ last'.res = "Ok") =>
          LET d == last'.doc
          IN  /\ find_by_hash(db', d.content_hash, FALSE) = Found(d)
              /\ find_by_id(db', d.id, FALSE) = Found(d)
              /\ \A e \in db :
                    /\ e.content_hash # d.content_hash
                    /\ find_by_hash(db', e.content_hash, FALSE)
                          = find_by_hash(db, e.content_hash, FALSE)
                    /\ find_by_id(db', e.id, FALSE) = find_by_id(db, e.id, FALSE) ]_vars

\* a second document, with another hash, has been saved
C24_Witness ==
    /\ last.kind = "save"
    /\ last.res = "Ok"
    /\ Cardinality(db) = 2
    /\ find_by_id(db, last.doc.id, FALSE) = Found(last.doc)

\* ------------------------------------------------------------ C25
\* C25: find_by_hash and find_by_id on a key that was never saved return
\* NotFound when the engine answers the query, and the store is unchanged.
C25_UnknownKeyNotFound ==
    [][ ( /\ last'.kind = "find"
          /\ ~last'.io
          /\ last'.key \notin SavedKeys(db, last'.by) ) =>
            /\ last'.res = [ ok |-> FALSE, err |-> "NotFound", doc |-> None ]
            /\ db' = db ]_vars

\* a lookup by a hash the store does not hold, on a store that holds others
C25_Witness ==
    /\ last.kind = "find"
    /\ last.by = "hash"
    /\ ~last.io
    /\ db # {}
    /\ last.key \notin SavedKeys(db, "hash")
    /\ last.res.err = "NotFound"

\* ------------------------------------------------------------ C26
\* an advance request whose payload decodes to text that is no JSON, that is
\* JSON without the action tag notarize or verify, or that is a notarize
\* whose content is no base64
Unparsable(request) ==
    /\ request.kind = "advance"
    /\ \/ request.payload.shape = "badjson"
       \/ request.payload.shape = "bare"
       \/ request.payload.shape = "action"
            /\ request.payload.action \notin { "notarize", "verify" }
       \/ request.payload.shape = "action"
            /\ request.payload.action = "notarize"
            /\ ~request.payload.content_valid

\* C26: an advance request that is no JSON, has no known action tag or is a
\* notarize with invalid base64 content returns reject after exactly one
\* report, which carries an error message; it emits no notice, opens no store
\* and leaves the store unchanged.
C26_UnparsableRejected ==
    [][ (last'.kind = "advance" /\ Unparsable(last'.request)) =>
          /\ last'.ret = Returned("reject")
          /\ Len(last'.reports) = 1
          /\ DOMAIN last'.reports[1] = { "error" }
          /\ last'.reports[1].error # <<>>
          /\ last'.notices = <<>>
          /\ notices' = notices
          /\ last'.opened = "none"
          /\ db' = db ]_vars

\* a notarize whose content is no base64 has been rejected on a store that
\* holds a document
C26_Witness ==
    /\ last.kind = "advance"
    /\ Unparsable(last.request)
    /\ last.request.payload.action = "notarize"
    /\ last.ret = Returned("reject")
    /\ db # {}

\* ------------------------------------------------------------ C30
\* the handled request is an advance notarize the Notarize Service accepted
NotarizeSucceeded(r) == IsAdvanceNotarize(r) /\ r.res # None /\ r.res.ok

\* C30 as stated: a verify request of either kind and an inspect request with
\* any payload leave the document store unchanged; the store changes only by
\* a successful advance notarize, and a successful advance notarize adds
\* exactly one document to it.
C30_OnlyNotarizeAdds ==
    [][ /\ (IsVerify(last') \/ last'.kind = "inspect") => db' = db
        /\ db' # db => NotarizeSucceeded(last')
        /\ (NotarizeSucceeded(last') /\ last' # last) =>
              \E d \in db' :
                  /\ d \notin db
                  /\ db' = db \cup { d }
                  /\ d.id = last'.res.receipt.document_id ]_vars

\* C30 on the store each request opened: verify and inspect requests leave
\* it and the persistent store as they were, and only a successful advance
\* notarize changes a store, by the one document of its receipt.
C30_OpenedStoreFrame ==
    [][ LET before == IF last'.opened = "path" THEN db ELSE {}
        IN  /\ (IsVerify(last') \/ last'.kind = "inspect") =>
                  /\ db' = db
                  /\ last'.opened # "none" => last'.stored = before
            /\ (db' # db \/ last'.stored # before) => NotarizeSucceeded(last')
            /\ NotarizeSucceeded(last') =>
                  \E d \in last'.stored :
                      /\ d \notin before
                      /\ last'.stored = before \cup { d }
                      /\ d.id = last'.res.receipt.document_id
                      /\ last'.opened = "path" => db' = last'.stored ]_vars

\* ------------------------------------------------------------ C28
\* the callers whose execute has built a document
Built == { p \in Procs : proc[p].doc # None }

\* C28: the content_hash Document::new gives is 64 lower-case hex digits, and
\* two documents have the same content_hash exactly when they were built from
\* the same content, whatever their file_name, mime_type and submitted_by.
C28_HashOfContentOnly ==
    \A p \in Built :
        /\ Len(proc[p].doc.content_hash) = 64
        /\ \A i \in 1..Len(proc[p].doc.content_hash) :
              \E k \in 1..16 : proc[p].doc.content_hash[i] = HexLower[k]
        /\ \A q \in Built :
              (proc[p].args.content = proc[q].args.content)
                  <=> (proc[p].doc.content_hash = proc[q].doc.content_hash)

\* two documents built from one content under different file names, mime
\* types and submitters
C28_Witness ==
    \E p \in Built, q \in Built :
        /\ proc[p].args.content = proc[q].args.content
        /\ proc[p].doc.file_name # proc[q].doc.file_name
        /\ proc[p].doc.mime_type # proc[q].doc.mime_type
        /\ proc[p].doc.submitted_by # proc[q].doc.submitted_by
        /\ proc[p].doc.content_hash = proc[q].doc.content_hash

\* ------------------------------------------------------------ C29
\* C29: hex-encoding a JSON text gives two hex digits per byte, and decoding
\* what send_notice and send_report post gives back exactly that text.
C29_HexRoundTrip ==
    last.kind = "hex" =>
        /\ Len(last.posted) = 2 * Len(last.text)
        /\ \A i \in 1..Len(last.posted) : HexValue(last.posted[i]) # -1
        /\ last.decoded.ok
        /\ last.decoded.text = last.text

\* a text with a line feed and a two-byte character has made the round trip
C29_Witness ==
    /\ last.kind = "hex"
    /\ \E i \in 1..Len(last.text) : last.text[i] = 10
    /\ \E i \in 1..Len(last.text) : last.text[i] = 195
    /\ last.decoded.ok

\* ------------------------------------------------------------ C27
\* C27 as stated: two runs fed the same requests from the same initial store
\* return the same verdict for each request and emit the same notice and
\* report payloads.
C27_Deterministic ==
    /\ replay.last.kind = last.kind
    /\ last.kind # "none" =>
          /\ replay.last.ret = last.ret
          /\ replay.last.notices = last.notices
          /\ replay.last.reports = last.reports
    /\ replay.notices = notices

\* the part of C27 the code keeps: the two runs return the same verdict for
\* each request and emit the same number of notices and reports.
C27_SameVerdicts ==
    /\ replay.last.kind = last.kind
    /\ last.kind # "none" =>
          /\ replay.last.ret = last.ret
          /\ Len(replay.last.notices) = Len(last.notices)
          /\ Len(replay.last.reports) = Len(last.reports)
    /\ Len(replay.notices) = Len(notices)

\* ------------------------------------------------------------ C31
\* C31: an advance or inspect request whose handler returned a verdict has
\* emitted exactly one output, a notice or a report; a notice is emitted only
\* by a successful advance notarize, never by an inspect request.
C31_OneOutputPerVerdict ==
    (last.kind \in { "advance", "inspect" } /\ last.ret.ok) =>
        /\ Len(last.notices) + Len(last.reports) = 1
        /\ last.notices # <<>> => NotarizeSucceeded(last)
        /\ last.kind = "inspect" => last.notices = <<>>

\* a successful notarize has returned its verdict after one notice, on a
\* host whose calls may fail
C31_Witness ==
    /\ hostFaulty
    /\ last.kind = "advance"
    /\ last.ret.ok
    /\ Len(last.notices) = 1
    /\ last.reports = <<>>

\* ------------------------------------------------------------ C32
\* the notices the host accepted from position n on
NoticesFrom(n) == SubSeq(notices, n, Len(notices))

\* C32: while a delivered request is processed no finish is sent and no
\* request is fetched, the processing emits at most one output and is
\* followed by a finish or by the end of the loop; a finish emits nothing,
\* fetches only when no request is held, and the status it sends is the
\* verdict of the request processed last, whose output the host has by then.
C32_OneRequestBetweenFinishes ==
    [][ /\ driver.pc = "dispatch" =>
              /\ driver'.pc \in { "finish", "exited" }
              /\ driver'.nth = driver.nth
              /\ driver'.sent = driver.sent
              /\ driver'.delivered = NoDelivery
              /\ notices' = notices \o last'.notices
              /\ Len(last'.notices) + Len(last'.reports) <= 1
        /\ driver.pc = "finish" =>
              /\ driver.delivered = NoDelivery
              /\ notices' = notices
              /\ last' = last
              /\ db' = db
              /\ (last.kind # "none" /\ driver'.exit # "Failed to send finish") =>
                    /\ driver'.sent = last.ret.verdict
                    /\ NoticesFrom(Len(notices) - Len(last.notices) + 1) = last.notices
        /\ driver.pc = "exited" => UNCHANGED vars ]_vars

\* the finish after a rejected request has carried reject, after the one
\* report of that request
C32_Witness ==
    /\ driver.pc \in { "finish", "dispatch" }
    /\ driver.nth = 2
    /\ driver.sent = "reject"
    /\ last.kind = "advance"
    /\ last.ret = Returned("reject")
    /\ Len(last.reports) = 1

\* ------------------------------------------------------------ C33
\* C33: count_documents is 0 on a fresh store, a save_document call that
\* succeeds raises it by one, a save_document call that fails and a lookup
\* leave it as it was, and a count_documents call returns it and changes
\* nothing.
C33_CountsSuccessfulSaves ==
    /\ count_documents(db) = 0
    /\ [][ /\ (last'.kind = "save" /\ last'.res = "Ok") =>
                 count_documents(db') = count_documents(db) + 1
           /\ (last'.kind = "save" /\ last'.res # "Ok") =>
                 count_documents(db') = count_documents(db)
           /\ last'.kind = "find" => count_documents(db') = count_documents(db)
           /\ last'.kind = "count" =>
                 /\ db' = db
                 /\ last'.res.ok => last'.res.count = count_documents(db) ]_vars

\* count_documents has returned 2 after two successful saves
C33_Witness ==
    /\ last.kind = "count"
    /\ last.res.ok
    /\ last.res.count = 2
    /\ Cardinality(db) = 2

\* ------------------------------------------------------------ C34
\* C34: a finish answered with 202 Accepted leaves the status alone, and the
\* finish sent next carries the status the answered one carried: the verdict
\* of the request processed last when there is one, not accept again.
C34_IdleFinishRepeatsStatus ==
    [][ /\ (driver.pc = "finish" /\ driver'.idle /\ driver'.pc = "finish") =>
              /\ driver'.status = driver.status
              /\ driver'.sent = driver.status
        /\ (driver.pc = "finish" /\ driver.idle) =>
              /\ driver'.sent = driver.sent
              /\ last.kind # "none" => driver'.sent = last.ret.verdict ]_vars

\* the finish sent after a rejected request has carried reject and was
\* answered 202 Accepted, and the status is still reject
C34_Witness ==
    /\ driver.pc = "finish"
    /\ driver.idle
    /\ driver.nth = 2
    /\ last.ret = Returned("reject")
    /\ driver.sent = "reject"
    /\ driver.status = "reject"

\* ------------------------------------------------------------ C35
\* positions of the emitted notices whose receipt names document id
NoticesFor(id) == { i \in 1..Len(notices) : notices[i].receipt.document_id = id }

\* C35: while the loop of main runs, every document in the store has exactly
\* one emitted notice; a step that saves a document either emits its notice
\* and returns to finish, or the notice could not be sent and the loop ends
\* with no notice emitted and no finish sent, the document staying stored.
C35_SavedHasNoticeOrLoopEnds ==
    /\ [](driver.pc # "exited" => \A d \in db : Cardinality(NoticesFor(d.id)) = 1)
    /\ [][ db' # db =>
             \E d \in db' :
                 /\ d \notin db
                 /\ db' = db \cup { d }
                 /\ \/ /\ driver'.pc = "finish"
                       /\ Len(notices') = Len(notices) + 1
                       /\ notices'[Len(notices')].receipt.document_id = d.id
                    \/ /\ driver'.pc = "exited"
                       /\ driver'.exit = "Failed to send notice"
                       /\ notices' = notices
                       /\ driver'.sent = driver.sent
                       /\ driver'.nth = driver.nth ]_vars
    /\ [][ driver.pc = "exited" => (db' = db /\ notices' = notices) ]_vars

\* the loop has ended on a notice that could not be sent, and the document
\* saved for it is in the store without a notice
C35_Witness ==
    /\ driver.pc = "exited"
    /\ driver.exit = "Failed to send notice"
    /\ \E d \in db : NoticesFor(d.id) = {}

\* ------------------------------------------------------------ C36
\* hash is the upper-case spelling, different from the stored one, of the
\* hash of a document in store
UpperOfStored(hash, store) ==
    \E d \in store : hash = ToUpper(d.content_hash) /\ hash # d.content_hash

\* C36: a verify call for the upper-case spelling of a stored document's
\* hash passes the format check, looks the spelling up as it is written and
\* returns a result with exists = false, no document and no receipt.
C36_UpperCaseNotFound ==
    [][ (last'.kind = "verify" /\ UpperOfStored(last'.content_hash, db)) =>
          /\ is_valid_hash(last'.content_hash)
          /\ last'.res.ok
          /\ last'.res.lookup # "none"
          /\ last'.res.lookup # "found"
          /\ last'.res.result.exists = FALSE
          /\ last'.res.result.document = None ]_vars

\* the upper-case spelling of a stored hash was verified and the engine
\* answered the lookup
C36_Witness ==
    /\ last.kind = "verify"
    /\ UpperOfStored(last.content_hash, db)
    /\ last.res.lookup = "not_found"
    /\ last.res.result.exists = FALSE

\* ------------------------------------------------------------ C37
\* C37 as stated: for every request and every content of the configured
\* store, with NOTARY_DB_PATH set or not, the handlers of main.rs return what
\* the handlers of handlers.rs return and emit the same outputs.
C37_MainMatchesLibrary ==
    /\ replay.notices = notices
    /\ last.kind # "none" =>
          /\ replay.last.ret = last.ret
          /\ replay.last.notices = last.notices
          /\ replay.last.reports = last.reports

\* the part of C37 the code keeps: without NOTARY_DB_PATH the two sets of
\* handlers return and emit the same and leave the same store content.
C37_MatchesWithoutOverride ==
    ~replay.override =>
        /\ replay.db = db
        /\ replay.notices = notices
        /\ last.kind # "none" =>
              /\ replay.last.ret = last.ret
              /\ replay.last.notices = last.notices
              /\ replay.last.reports = last.reports

\* ------------------------------------------------------------ C38
\* the exists flags of the verification reports in a sequence of reports
ExistsFlags(report_seq) ==
    [ i \in 1..Len(report_seq) |->
        IF IsVerificationReport(report_seq[i]) THEN report_seq[i].exists ELSE FALSE ]

\* the reports of a sequence that are verification reports, by position
VerificationReports(report_seq) ==
    { i \in 1..Len(report_seq) : IsVerificationReport(report_seq[i]) }

\* C38: two runs fed the same requests, whose Document::new calls draw
\* different uuids and clock readings, return the same verdict for each
\* request and report the same exists flag in each verification report.
C38_VerdictsIgnoreIdsAndTimes ==
    /\ replay.last.kind = last.kind
    /\ last.kind # "none" =>
          /\ replay.last.ret = last.ret
          /\ VerificationReports(replay.last.reports) = VerificationReports(last.reports)
          /\ ExistsFlags(replay.last.reports) = ExistsFlags(last.reports)

\* a verify request has been answered with exists = true in both runs for a
\* document whose id and created_at differ between the runs
C38_Witness ==
    /\ IsVerify(last)
    /\ Len(last.reports) = 1
    /\ last.reports[1].exists
    /\ replay.last.reports[1].exists
    /\ last.reports[1].document.id # replay.last.reports[1].document.id
    /\ last.reports[1].document.created_at # replay.last.reports[1].document.created_at

\* ------------------------------------------------------------ C39
\* the request with the metadata of a plain advance request put in
WithMetadata(request) ==
    [ request EXCEPT !.metadata = RequestMetadata(TRUE, "0x111", 100) ]

\* the verdict handle_advance returns for the request on the store the
\* handled request r had opened, engine and host working
VerdictOn(request, r) ==
    { handle_advance(request,
                     [ opened |-> r.opened,
                       store  |-> IF r.opened = "path" THEN db ELSE {} ],
                     nextId, now, NoFault, FALSE).ret : now \in RequestTimes }

\* C39: a notarize request without metadata is processed as one with
\* metadata is: it gets the verdict the same request with metadata would
\* get, and when it succeeds the document it stores has the zero address as
\* submitted_by and the receipt in its notice has block_number 0.
C39_NoMetadataDefaults ==
    [][ (IsAdvanceNotarize(last') /\ ~last'.request.metadata.present) =>
          /\ VerdictOn(WithMetadata(last'.request), last') = { last'.ret }
          /\ NotarizeSucceeded(last') =>
                /\ Len(last'.notices) = 1
                /\ last'.notices[1].receipt.block_number = 0
                /\ \E d \in last'.stored :
                      /\ d.id = last'.notices[1].receipt.document_id
                      /\ d.submitted_by = ZeroAddress
                      /\ d.submitted_by = "0x0000000000000000000000000000000000000000" ]_vars

\* a notarize request without metadata has been accepted and its document
\* is in the persistent store
C39_Witness ==
    /\ IsAdvanceNotarize(last)
    /\ ~last.request.metadata.present
    /\ last.ret = Returned("accept")
    /\ \E d \in db : d.submitted_by = ZeroAddress

=============================================================================
